---- MODULE Spec2Model ----
(***************************************************************************)
(* Model of the LLM repair loop of pulse_retention_ai:                     *)
(*   backend/app/services/dynamic_llm_normalizer.py                        *)
(*   (normalize_with_dynamic_llm and its helpers; llm_normalizer.py has    *)
(*   the same orchestration loop).                                         *)
(*                                                                         *)
(* A text (raw LLM response, cleaned script) is a sequence of tokens; a    *)
(* token is a string standing for one piece of program text.  Substring    *)
(* tests of the code ("snippet in code") are token-level: a snippet        *)
(* occurs in a text iff it occurs in one of its tokens (Occurs).           *)
(***************************************************************************)
EXTENDS Integers, Sequences, FiniteSets, TLC

----------------------------------------------------------------------------
(* Bounds of the model *)

\* largest attempt budget a request is started with
MaxAttempts == 3

\* how far below zero the attempt budget of a request goes (the function
\* takes any int)
NegativeBudgets == 1

----------------------------------------------------------------------------
(* Generic helpers *)

Min(a, b) == IF a < b THEN a ELSE b

Range(s) == {s[i] : i \in 1..Len(s)}

\* Optional[T]: None is the empty sequence, a value v is <<v>>
None == <<>>

Some(v) == <<v>>

\* one diagnostic string: a fixed message with its interpolated arguments
Diag(m, a, k) == [msg |-> m, args |-> a, n |-> k]

----------------------------------------------------------------------------
(* Tokens of program text.  In a token [dq] stands for a double quote,     *)
(* [sq] for a single quote and [fence] for three backticks.                *)

T_DEF == "def clean(input_path, output_path):"
T_GUARD_DQ == "if __name__ == [dq]__main__[dq]:"
T_GUARD_SQ == "if __name__ == [sq]__main__[sq]:"
T_NAME == "print(__name__)"
T_CALL == "clean(sys.argv[1], sys.argv[2])"
T_BODY == "pd.read_csv(input_path).to_csv(output_path, index=False)"
T_BODY2 == "df = pd.read_csv(input_path); df.to_csv(output_path, index=False)"
T_SUBPROCESS == "import subprocess"
T_OSSYSTEM == "os.system(cmd)"
T_REQUESTS == "import requests"
T_HTTPX == "import httpx"
T_AIOHTTP == "import aiohttp"
T_EVAL == "eval(expr)"
T_EXEC == "exec(source)"
T_RMTREE == "shutil.rmtree(path)"
T_RMDTREE == "shutil.rmdtree(path)"
T_CALL_ONE_ARG == "clean(sys.argv[1])"
T_FENCE_PY == "[fence]python"
T_FENCE == "[fence]"
T_THOUGHT_OPEN == "<thought>"
T_THOUGHT_CLOSE == "</thought>"
T_TAG == "<code>"
T_PROSE == "Here is the script"
T_WS == " "
T_PAD == "# padding of 40001 bytes"

\* "snippet in token": which of the snippets script_contract_ok looks for
\* occur in which token
Occurs(snippet, tok) ==
    CASE snippet = "def clean(" -> tok = T_DEF
      [] snippet = "__name__" -> tok \in {T_GUARD_DQ, T_GUARD_SQ, T_NAME}
      [] snippet = "if __name__ == [dq]__main__[dq]" -> tok = T_GUARD_DQ
      [] snippet = "if __name__ == [sq]__main__[sq]" -> tok = T_GUARD_SQ
      [] snippet = "subprocess" -> tok = T_SUBPROCESS
      [] snippet = "os.system" -> tok = T_OSSYSTEM
      [] snippet = "requests" -> tok = T_REQUESTS
      [] snippet = "httpx" -> tok = T_HTTPX
      [] snippet = "aiohttp" -> tok = T_AIOHTTP
      [] snippet = "eval(" -> tok = T_EVAL
      [] snippet = "exec(" -> tok = T_EXEC
      [] snippet = "shutil.rmtree" -> tok = T_RMTREE
      [] snippet = "shutil.rmdtree" -> tok = T_RMDTREE
      [] OTHER -> FALSE

\* "snippet in code"
Contains(code, snippet) == \E i \in 1..Len(code) : Occurs(snippet, code[i])

\* len(tok.encode("utf-8"))
TokenBytes(tok) == IF tok = T_PAD THEN 40001 ELSE 30

RECURSIVE CodeBytes(_)
CodeBytes(code) ==
    IF code = <<>> THEN 0 ELSE TokenBytes(Head(code)) + CodeBytes(Tail(code))

----------------------------------------------------------------------------
(* clean_ai_response *)

IsThoughtTag(tok) == tok \in {T_THOUGHT_OPEN, T_THOUGHT_CLOSE}

\* a token matched by the regular expression <[^>]+>
IsTag(tok) == tok \in {T_THOUGHT_OPEN, T_THOUGHT_CLOSE, T_TAG}

IsFence(tok) == tok \in {T_FENCE_PY, T_FENCE}

\* re.sub of <thought> ... </thought> blocks: leftmost match, shortest body
RECURSIVE StripThought(_)
StripThought(text) ==
    LET n == Len(text)
        closeAfter(i) == {j \in (i + 1)..n : text[j] = T_THOUGHT_CLOSE}
        starts == {i \in 1..n : IsThoughtTag(text[i]) /\ closeAfter(i) # {}}
    IN  IF starts = {} THEN text
        ELSE LET i == CHOOSE x \in starts : \A y \in starts : x <= y
                 j == CHOOSE x \in closeAfter(i) : \A y \in closeAfter(i) : x <= y
             IN  SubSeq(text, 1, i - 1) \o StripThought(SubSeq(text, j + 1, n))

NotTag(tok) == ~IsTag(tok)

NotFence(tok) == ~IsFence(tok)

\* str.strip(): drop leading and trailing whitespace
RECURSIVE Strip(_)
Strip(text) ==
    IF text = <<>> THEN text
    ELSE IF Head(text) = T_WS THEN Strip(Tail(text))
    ELSE IF text[Len(text)] = T_WS THEN Strip(SubSeq(text, 1, Len(text) - 1))
    ELSE text

clean_ai_response(raw) ==
    Strip(SelectSeq(SelectSeq(StripThought(raw), NotTag), NotFence))

----------------------------------------------------------------------------
(* script_contract_ok *)

FORBIDDEN_SNIPPETS ==
    << "subprocess", "requests", "httpx", "aiohttp", "eval(", "exec(",
       "os.system", "shutil.rmtree", "shutil.rmdtree" >>

max_bytes == 40000

\* the denylist loop breaks at the first snippet it finds
RECURSIVE ForbiddenErrors_break(_, _)
ForbiddenErrors_break(code, snippets) ==
    IF snippets = <<>> THEN <<>>
    ELSE IF Contains(code, Head(snippets))
    THEN << Diag("Forbidden pattern detected: {snippet!r}.", <<Head(snippets)>>, 0) >>
    ELSE ForbiddenErrors_break(code, Tail(snippets))

RECURSIVE ForbiddenErrors(_, _)
ForbiddenErrors(code, snippets) ==
    IF snippets = <<>> THEN <<>>
    ELSE (IF Contains(code, Head(snippets))
          THEN << Diag("Forbidden pattern detected: {snippet!r}.", <<Head(snippets)>>, 0) >>
          ELSE <<>>)
         \o ForbiddenErrors(code, Tail(snippets))

\* only the token __name__ is looked for
MissingMainGuard_name_only(code) == ~Contains(code, "__name__")

\* "__name__" not in code or (dq form not in code and sq form not in code)
MissingMainGuard(code) ==
    \/ ~Contains(code, "__name__")
    \/ /\ ~Contains(code, "if __name__ == [dq]__main__[dq]")
       /\ ~Contains(code, "if __name__ == [sq]__main__[sq]")

\* the checker returns at the first rule that is broken
contract_errors_first_only(code) ==
    IF CodeBytes(code) > max_bytes
    THEN << Diag("Script is too large (> {max_bytes} bytes).", <<>>, max_bytes) >>
    ELSE IF ~Contains(code, "def clean(")
    THEN << Diag("Missing required function definition: def clean(input_path, output_path).", <<>>, 0) >>
    ELSE IF MissingMainGuard(code)
    THEN << Diag("Missing required main guard: if __name__ == '__main__': ... clean(sys.argv[1], sys.argv[2]).", <<>>, 0) >>
    ELSE ForbiddenErrors(code, FORBIDDEN_SNIPPETS)

contract_errors_of(code) ==
    (IF CodeBytes(code) > max_bytes
     THEN << Diag("Script is too large (> {max_bytes} bytes).", <<>>, max_bytes) >>
     ELSE <<>>)
    \o (IF ~Contains(code, "def clean(")
        THEN << Diag("Missing required function definition: def clean(input_path, output_path).", <<>>, 0) >>
        ELSE <<>>)
    \o (IF MissingMainGuard(code)
        THEN << Diag("Missing required main guard: if __name__ == '__main__': ... clean(sys.argv[1], sys.argv[2]).", <<>>, 0) >>
        ELSE <<>>)
    \o ForbiddenErrors(code, FORBIDDEN_SNIPPETS)

script_contract_ok(code) ==
    LET errors == contract_errors_of(code)
    IN  [ok |-> Len(errors) = 0, errors |-> errors]

----------------------------------------------------------------------------
(* validate_output_csv *)

\* the caller's target schema: (column_name, description) pairs
expected_schema ==
    << <<"customer_id", "Unique customer identifier (string)">>,
       <<"event_date", "Date of the event in YYYY-MM-DD format">> >>

\* every column name of the model, in sorted() order
ColumnOrder ==
    << "amount", "churn_label", "customer_id", "event_date", "event_type", "notes" >>

\* sorted(S) for a set of column names
RECURSIVE SortedFrom(_, _)
SortedFrom(S, order) ==
    IF order = <<>> THEN <<>>
    ELSE (IF Head(order) \in S THEN <<Head(order)>> ELSE <<>>) \o SortedFrom(S, Tail(order))

sorted(S) == SortedFrom(S, ColumnOrder)

\* the cells of a file that the validators look at: the number of rows with
\* a null customer_id, with an event_date that is null or no date, with a
\* negative amount, with a churn_label other than 0 and 1
NoDefects == [null_ids |-> 0, bad_dates |-> 0, neg_amounts |-> 0, bad_labels |-> 0]

\* what is at the output path: nothing, or a file with its content;
\* by is the attempt whose child process wrote it
NoFile ==
    [exists |-> FALSE, parseable |-> FALSE, cols |-> {}, rows |-> 0, by |-> 0,
     cells |-> NoDefects]

CsvFileWith(cols, rows, k, cells) ==
    [exists |-> TRUE, parseable |-> TRUE, cols |-> cols, rows |-> rows, by |-> k,
     cells |-> cells]

CsvFile(cols, rows, k) == CsvFileWith(cols, rows, k, NoDefects)

GarbageFile(k) ==
    [exists |-> TRUE, parseable |-> FALSE, cols |-> {}, rows |-> 0, by |-> k,
     cells |-> NoDefects]

\* the validator returns at the first check that fails
validate_output_csv_first_only(file, schema) ==
    IF ~file.exists
    THEN [ok |-> FALSE, errors |-> << Diag("Output CSV file not found at {path}.", <<>>, 0) >>]
    ELSE IF ~file.parseable
    THEN [ok |-> FALSE, errors |-> << Diag("Failed to read output CSV: {exc}", <<>>, 0) >>]
    ELSE LET required_cols == {schema[i][1] : i \in 1..Len(schema)}
             missing == required_cols \ file.cols
         IN  IF missing # {}
             THEN [ok |-> FALSE, errors |->
                      << Diag("Missing required columns: {sorted(missing)}", sorted(missing), 0) >>]
             ELSE IF file.rows = 0
             THEN [ok |-> FALSE, errors |-> << Diag("Output CSV is empty (0 rows).", <<>>, 0) >>]
             ELSE [ok |-> TRUE, errors |-> <<>>]

\* the set difference is taken the wrong way round
validate_output_csv_extra_columns(file, schema) ==
    IF ~file.exists
    THEN [ok |-> FALSE, errors |-> << Diag("Output CSV file not found at {path}.", <<>>, 0) >>]
    ELSE IF ~file.parseable
    THEN [ok |-> FALSE, errors |-> << Diag("Failed to read output CSV: {exc}", <<>>, 0) >>]
    ELSE LET required_cols == {schema[i][1] : i \in 1..Len(schema)}
             missing == file.cols \ required_cols
             errors ==
                 (IF missing # {}
                  THEN << Diag("Missing required columns: {sorted(missing)}", sorted(missing), 0) >>
                  ELSE <<>>)
                 \o (IF file.rows = 0
                     THEN << Diag("Output CSV is empty (0 rows).", <<>>, 0) >>
                     ELSE <<>>)
         IN  [ok |-> Len(errors) = 0, errors |-> errors]

validate_output_csv(file, schema) ==
    IF ~file.exists
    THEN [ok |-> FALSE, errors |-> << Diag("Output CSV file not found at {path}.", <<>>, 0) >>]
    ELSE IF ~file.parseable
    THEN [ok |-> FALSE, errors |-> << Diag("Failed to read output CSV: {exc}", <<>>, 0) >>]
    ELSE LET required_cols == {schema[i][1] : i \in 1..Len(schema)}
             missing == required_cols \ file.cols
             errors ==
                 (IF missing # {}
                  THEN << Diag("Missing required columns: {sorted(missing)}", sorted(missing), 0) >>
                  ELSE <<>>)
                 \o (IF file.rows = 0
                     THEN << Diag("Output CSV is empty (0 rows).", <<>>, 0) >>
                     ELSE <<>>)
         IN  [ok |-> Len(errors) = 0, errors |-> errors]

\* llm_normalizer.py: STANDARD_SCHEMA.keys()
STANDARD_SCHEMA_keys ==
    {"customer_id", "event_date", "amount", "event_type", "churn_label"}

\* llm_normalizer.py: validate_output_csv(path), the validator of normalize_with_llm
validate_output_csv_standard(file) ==
    IF ~file.exists
    THEN [ok |-> FALSE, errors |-> << Diag("Output CSV file not found at {path}.", <<>>, 0) >>]
    ELSE IF ~file.parseable
    THEN [ok |-> FALSE, errors |-> << Diag("Failed to read output CSV: {exc}", <<>>, 0) >>]
    ELSE LET missing == STANDARD_SCHEMA_keys \ file.cols
             errors ==
                 (IF missing # {}
                  THEN << Diag("Missing required columns: {sorted(missing)}", sorted(missing), 0) >>
                  ELSE <<>>)
                 \o (IF "customer_id" \in file.cols /\ file.cells.null_ids > 0
                     THEN << Diag("Found {null_count} null values in customer_id.",
                                  <<>>, file.cells.null_ids) >>
                     ELSE <<>>)
                 \o (IF "event_date" \in file.cols /\ file.cells.bad_dates > 0
                     THEN << Diag("event_date column contains {invalid_count} invalid dates.",
                                  <<>>, file.cells.bad_dates) >>
                     ELSE <<>>)
                 \o (IF "amount" \in file.cols /\ file.cells.neg_amounts > 0
                     THEN << Diag("Found {neg_count} negative values in amount column.",
                                  <<>>, file.cells.neg_amounts) >>
                     ELSE <<>>)
                 \o (IF "churn_label" \in file.cols /\ file.cells.bad_labels > 0
                     THEN << Diag("Found {len(invalid_labels)} invalid churn_label values (must be 0 or 1).",
                                  <<>>, file.cells.bad_labels) >>
                     ELSE <<>>)
         IN  [ok |-> Len(errors) = 0, errors |-> errors]

----------------------------------------------------------------------------
(* build_user_prompt *)

\* the system message: the schema text and the fixed contract and repair rules
build_system_prompt(schema) ==
    [ EXPECTED_SCHEMA |-> schema,
      CONTRACT |-> "def clean(input_path: str, output_path: str) -> None",
      REPAIR |-> "return a FULL corrected script" ]

NoDetails == Diag("Script failed, but no specific error details were captured.", <<>>, 0)

\* the user message, one field per section; a section that is left out is None
build_user_prompt(raw_summary, last_script, last_error_text, last_error_list) ==
    [ RAW_CSV_SUMMARY |-> raw_summary,
      PREVIOUS_SCRIPT |-> last_script,
      ERRORS_TO_FIX |->
          IF last_script = None THEN None
          ELSE IF last_error_list # <<>> THEN Some(last_error_list)
          ELSE IF last_error_text # None THEN Some(<<last_error_text[1]>>)
          ELSE Some(<<NoDetails>>) ]

----------------------------------------------------------------------------
(* Inputs of one request and the environment's choices *)

\* raw answers of the generation service
R_GOOD ==
    << T_THOUGHT_OPEN, T_PROSE, T_THOUGHT_CLOSE, T_FENCE_PY, T_DEF, T_BODY,
       T_GUARD_DQ, T_CALL, T_FENCE, T_WS >>
R_NO_GUARD == << T_FENCE_PY, T_DEF, T_BODY2, T_FENCE >>
R_FORBIDDEN == << T_SUBPROCESS, T_DEF, T_BODY, T_GUARD_SQ, T_CALL >>

RawResponses == {R_GOOD, R_NO_GUARD, R_FORBIDDEN}

\* exceptions requests.post / raise_for_status raise out of call_gemini
GenerationErrors == {"requests.Timeout", "requests.HTTPError"}

\* captured output of a child process: its text is abstracted to a tag and a length
Text(tag, len) == [tag |-> tag, len |-> len]

EmptyText == Text("", 0)

\* (stdout, stderr) pairs a child can leave
ProcOutputs ==
    { [stdout |-> EmptyText, stderr |-> EmptyText],
      [stdout |-> Text("rows written", 501), stderr |-> Text("Traceback", 1001)] }

ReturnCodes == {0, 1}

\* what a child process does to the output path before it ends
FileEffects == {"no_write", "write_valid", "write_missing_column", "write_empty"}

ApplyEffect(file, effect, k) ==
    CASE effect = "no_write" -> file
      [] effect = "write_valid" -> CsvFile({"customer_id", "event_date", "amount"}, 1, k)
      [] effect = "write_missing_column" -> CsvFile({"event_date", "amount"}, 1, k)
      [] effect = "write_empty" -> CsvFile({"customer_id", "event_date"}, 0, k)

raw_summary == "COLUMNS: id (int64), dt (object) SAMPLE_ROWS_CSV: id,dt"

script_timeout_sec == 60

----------------------------------------------------------------------------
(* State *)

VARIABLES
    normalizer,       \* the module whose orchestrator runs the request
    pc,               \* position of the request in the orchestrator
    max_attempts,     \* argument max_attempts
    attempt,          \* loop variable of "for attempt in range(1, max_attempts + 1)"
    code,             \* local code of the current attempt
    last_script,      \* Optional[str]
    last_error_text,  \* Optional[str]
    last_error_list,  \* List[str]
    last_stdout,      \* str
    outcome,          \* what the call returned or raised (pc tells which)
    fs,               \* temporary directories and script files that exist
    output_file,      \* what is at output_csv
    child,            \* the child process of the current attempt
    dirs_made,        \* number of temporary directories created so far
    tmpdir,           \* local tmpdir of run_clean_script (NoDir outside of it)
    peer,             \* a concurrent request's own state while it is not stepping
    gen_calls,        \* history: number of call_gemini calls made
    trail             \* history: one record per attempt started

vars == << normalizer, pc, max_attempts, attempt, code, last_script, last_error_text,
           last_error_list, last_stdout, outcome, fs, output_file, child,
           dirs_made, tmpdir, peer, gen_calls, trail >>

NoOutcome == [pending |-> TRUE]

\* run_clean_script is not being executed
NoDir == 0

\* no other request is running
NoPeer == [id |-> 0]

TmpDir(n) == [dir |-> n, file |-> ""]

ScriptPath(n) == [dir |-> n, file |-> "clean_script.py"]

\* history record of an attempt that has just sent its prompt
NewAttempt(prompt) ==
    [ prompt |-> prompt,      \* user prompt sent to call_gemini
      checked |-> None,       \* text handed to script_contract_ok
      contract |-> None,      \* errors script_contract_ok returned
      executed |-> None,      \* text handed to run_clean_script
      tmp |-> {},             \* temporary paths created by run_clean_script
      run |-> "none",         \* how run_clean_script ended
      out |-> None,           \* (stdout, stderr) run_clean_script returned
      killed |-> FALSE,       \* the child was killed
      validation |-> None,    \* errors validate_output_csv returned
      ended |-> "pending",    \* how the attempt ended
      text |-> None,          \* diagnostic text the failing gate produced
      list |-> <<>> ]         \* diagnostic list the failing gate produced

Last == Len(trail)

\* normalize_with_dynamic_llm (dynamic_llm_normalizer.py) and normalize_with_llm
\* (llm_normalizer.py) are the same loop around different validators
Normalizers == {"dynamic_llm_normalizer", "llm_normalizer"}

Init ==
    /\ normalizer = "dynamic_llm_normalizer"
    /\ pc = "summarize"
    /\ max_attempts \in (0 - NegativeBudgets)..MaxAttempts
    /\ attempt = 0
    /\ code = <<>>
    /\ last_script = None
    /\ last_error_text = None
    /\ last_error_list = <<>>
    /\ last_stdout = EmptyText
    /\ outcome = NoOutcome
    /\ fs = {}
    /\ output_file = NoFile
    /\ child = "none"
    /\ dirs_made = 0
    /\ tmpdir = NoDir
    /\ peer = NoPeer
    /\ gen_calls = 0
    /\ trail = <<>>

----------------------------------------------------------------------------
(* Pieces of normalize_with_dynamic_llm *)

\* what pd.read_csv raises on a file that is not tabular data
InputReadError == "pandas.errors.ParserError"

\* the read error is swallowed and the loop is entered
after_summarize_retried(readable) == "loop"

\* "raw_summary = summarize_csv(input_csv)" is outside any try block
after_summarize(readable) == IF readable THEN "loop" ELSE "raised"

\* the loop bound off by one
range_has_next_inclusive(a, n) == a <= n

\* "for attempt in range(1, max_attempts + 1)": there is a next iteration
range_has_next(a, n) == a < n

\* the raw answer is kept instead of the cleaned text
script_to_keep_raw(raw_resp, cleaned) == raw_resp

\* "last_script = code"
script_to_keep(raw_resp, cleaned) == cleaned

\* the "continue" after a failed contract check is missing
after_contract_check_falls_through(ok_contract) == "execute"

\* an accepted program is validated without having been run
after_contract_check_skips_execute(ok_contract) ==
    IF ok_contract THEN "validate" ELSE "loop"

\* "if not ok_contract: ... continue"
after_contract_check(ok_contract) == IF ok_contract THEN "execute" ELSE "loop"

ContractText ==
    Diag("Generated code does not satisfy the required structure or safety rules.", <<>>, 0)

TimeoutText ==
    Diag("Script execution timed out after {script_timeout_sec} seconds.", <<>>, script_timeout_sec)

UnexpectedText(exc) ==
    Diag("Unexpected error while executing script: {exc}", <<exc>>, 0)

RuntimeErrorText(retcode) ==
    Diag("Runtime error: process exited with code {retcode}.", <<>>, retcode)

ValidationText ==
    Diag("Validation failed: output CSV does not conform to EXPECTED_SCHEMA.", <<>>, 0)

\* llm_normalizer.py
ValidationTextStandard ==
    Diag("Validation failed: output CSV does not conform to STANDARD_SCHEMA.", <<>>, 0)

\* the validator call and the error text of the running orchestrator
validate_output(file) ==
    IF normalizer = "dynamic_llm_normalizer"
    THEN validate_output_csv(file, expected_schema)
    ELSE validate_output_csv_standard(file)

validation_text ==
    IF normalizer = "dynamic_llm_normalizer" THEN ValidationText ELSE ValidationTextStandard

\* the timeout handler forgets to reset the error list
timeout_error_list_stale(old_list) == old_list

\* "except subprocess.TimeoutExpired: ... last_error_list = []"
timeout_error_list(old_list) == <<>>

\* the captured text is passed on whole
Truncate_none(text, k) == text

\* text[:k]
Truncate(text, k) == Text(text.tag, Min(text.len, k))

\* the two-element error list of a non-zero exit
runtime_error_list(stdout, stderr) ==
    << Diag("stderr (truncated): {truncated_stderr}", <<stderr.tag>>, Truncate(stderr, 1000).len),
       Diag("stdout (truncated): {truncated_stdout}", <<stdout.tag>>, Truncate(stdout, 500).len) >>

\* the attempt number is reported zero-based
Success_zero_based(a, so, ls) ==
    [success |-> TRUE, attempts |-> a - 1, last_stdout |-> so, generated_script |-> ls]

\* "return True, {...}"
Success(a, so, ls) ==
    [success |-> TRUE, attempts |-> a, last_stdout |-> so, generated_script |-> ls]

\* llm_normalizer.py, "return True, {...}": the dictionary has no script entry
SuccessStandard(a, so) ==
    [success |-> TRUE, attempts |-> a, last_stdout |-> so]

\* the success result of the running orchestrator
return_success(a, so, ls) ==
    IF normalizer = "dynamic_llm_normalizer" THEN Success(a, so, ls)
    ELSE SuccessStandard(a, so)

\* the failure result reports the script kept before the last attempt ran
Failure_without_script(n, et, el, ls, so) ==
    [success |-> FALSE, attempts |-> n, last_error_text |-> et,
     last_error_list |-> el, last_script |-> None, last_stdout |-> so]

\* "return False, {...}"
Failure(n, et, el, ls, so) ==
    [success |-> FALSE, attempts |-> n, last_error_text |-> et,
     last_error_list |-> el, last_script |-> ls, last_stdout |-> so]

Raised(exc) == [raised |-> exc]

\* every call uses the same directory
mkdtemp_fixed(n) == 1

\* tempfile.mkdtemp: a directory that no earlier call has been given
mkdtemp(n) == n + 1

\* only the script file is unlinked, the directory stays
tmpdir_cleanup_file_only(files, n) == {f \in files : f # ScriptPath(n)}

\* tempfile.TemporaryDirectory.__exit__: the directory and all it holds are removed
tmpdir_cleanup(files, n) == {f \in files : f.dir # n}

\* the child is left running when the timeout fires
child_after_timeout_left_running == "running"

\* subprocess.run(..., timeout=...) kills the child before it raises TimeoutExpired
child_after_timeout == "killed"

\* the attempt's record in the history, changed by f
Note(f) == trail' = [trail EXCEPT ![Last] = f]

----------------------------------------------------------------------------
(* Actions *)

\* raw_summary = summarize_csv(input_csv)
Summarize ==
    /\ pc = "summarize"
    /\ \E readable \in BOOLEAN :
          /\ pc' = after_summarize(readable)
          /\ outcome' = IF readable THEN outcome ELSE Raised(InputReadError)
    /\ UNCHANGED << peer, tmpdir, normalizer, max_attempts, attempt, code, last_script, last_error_text,
                    last_error_list, last_stdout, fs, output_file, child,
                    dirs_made, gen_calls, trail >>

\* top of the loop to "last_script = code": the generation call returns a text
Generate ==
    /\ pc = "loop"
    /\ range_has_next(attempt, max_attempts)
    /\ attempt' = attempt + 1
    /\ gen_calls' = gen_calls + 1
    /\ \E raw_resp \in RawResponses :
          /\ code' = clean_ai_response(raw_resp)
          /\ last_script' = Some(script_to_keep(raw_resp, code'))
    /\ trail' = Append(trail, NewAttempt(build_user_prompt(
                    raw_summary, last_script, last_error_text, last_error_list)))
    /\ pc' = "static_check"
    /\ UNCHANGED << peer, tmpdir, normalizer, max_attempts, last_error_text, last_error_list, last_stdout,
                    outcome, fs, output_file, child, dirs_made >>

\* top of the loop, call_gemini raises: nothing in the loop catches it
GenerateRaises ==
    /\ pc = "loop"
    /\ range_has_next(attempt, max_attempts)
    /\ attempt' = attempt + 1
    /\ gen_calls' = gen_calls + 1
    /\ \E exc \in GenerationErrors : outcome' = Raised(exc)
    /\ trail' = Append(trail, [NewAttempt(build_user_prompt(
                    raw_summary, last_script, last_error_text, last_error_list))
                    EXCEPT !.ended = "generation_error"])
    /\ pc' = "raised"
    /\ UNCHANGED << peer, tmpdir, normalizer, max_attempts, code, last_script, last_error_text,
                    last_error_list, last_stdout, fs, output_file, child, dirs_made >>

\* ok_contract, contract_errors = script_contract_ok(code)
StaticCheck ==
    /\ pc = "static_check"
    /\ LET r == script_contract_ok(code)
       IN  /\ pc' = after_contract_check(r.ok)
           /\ IF r.ok
              THEN /\ UNCHANGED << last_error_text, last_error_list >>
                   /\ Note([trail[Last] EXCEPT !.checked = Some(code),
                                               !.contract = Some(r.errors)])
              ELSE /\ last_error_text' = Some(ContractText)
                   /\ last_error_list' = r.errors
                   /\ Note([trail[Last] EXCEPT !.checked = Some(code),
                                               !.contract = Some(r.errors),
                                               !.ended = "contract",
                                               !.text = Some(ContractText),
                                               !.list = r.errors])
    /\ UNCHANGED << peer, tmpdir, normalizer, max_attempts, attempt, code, last_script, last_stdout,
                    outcome, fs, output_file, child, dirs_made, gen_calls >>

\* the handler forgets to reset the error list
Unexpected_stale_list(exc) ==
    /\ last_error_text' = Some(UnexpectedText(exc))
    /\ last_error_list' = last_error_list
    /\ pc' = "loop"

\* "except Exception as exc" around run_clean_script
Unexpected(exc) ==
    /\ last_error_text' = Some(UnexpectedText(exc))
    /\ last_error_list' = <<>>
    /\ pc' = "loop"

\* run_clean_script is entered: tempfile.TemporaryDirectory() creates the directory
ExecMkdtemp ==
    /\ pc = "execute"
    /\ \E created \in BOOLEAN :
          IF created
          THEN /\ dirs_made' = dirs_made + 1
               /\ tmpdir' = mkdtemp(dirs_made)
               /\ fs' = fs \cup {TmpDir(tmpdir')}
               /\ pc' = "exec_write"
               /\ UNCHANGED << last_error_text, last_error_list >>
               /\ Note([trail[Last] EXCEPT !.executed = Some(code),
                                           !.tmp = {TmpDir(tmpdir')}])
          ELSE /\ UNCHANGED << dirs_made, tmpdir, fs >>
               /\ Unexpected("OSError")
               /\ Note([trail[Last] EXCEPT !.executed = Some(code),
                                           !.run = "unexpected",
                                           !.ended = "unexpected",
                                           !.text = Some(UnexpectedText("OSError"))])
    /\ UNCHANGED << peer, normalizer, max_attempts, attempt, code, last_script, last_stdout,
                    outcome, output_file, child, gen_calls >>

\* script_path.write_text(code) and the start of the child process
ExecStart ==
    /\ pc = "exec_write"
    /\ \E step \in {"write_fails", "start_fails", "started"} :
          IF step = "started"
          THEN /\ fs' = fs \cup {ScriptPath(tmpdir)}
               /\ tmpdir' = tmpdir
               /\ child' = "running"
               /\ pc' = "exec_run"
               /\ UNCHANGED << last_error_text, last_error_list >>
               /\ Note([trail[Last] EXCEPT !.tmp = @ \cup {ScriptPath(tmpdir)}])
          ELSE LET exc == IF step = "write_fails" THEN "OSError" ELSE "FileNotFoundError"
               IN  /\ fs' = tmpdir_cleanup(fs, tmpdir)
                   /\ tmpdir' = NoDir
                   /\ child' = child
                   /\ Unexpected(exc)
                   /\ Note([trail[Last] EXCEPT
                             !.tmp = IF step = "start_fails"
                                     THEN @ \cup {ScriptPath(tmpdir)} ELSE @,
                             !.run = "unexpected",
                             !.ended = "unexpected",
                             !.text = Some(UnexpectedText(exc))])
    /\ UNCHANGED << peer, normalizer, max_attempts, attempt, code, last_script, last_stdout,
                    outcome, output_file, dirs_made, gen_calls >>

\* the child ends in time: run_clean_script returns, then
\* "last_stdout = stdout" and "if retcode != 0: ... continue"
ChildExits ==
    /\ pc = "exec_run"
    /\ \E retcode \in ReturnCodes, out \in ProcOutputs, effect \in FileEffects :
          /\ output_file' = ApplyEffect(output_file, effect, attempt)
          /\ last_stdout' = out.stdout
          /\ IF retcode # 0
             THEN /\ last_error_text' = Some(RuntimeErrorText(retcode))
                  /\ last_error_list' = runtime_error_list(out.stdout, out.stderr)
                  /\ pc' = "loop"
                  /\ Note([trail[Last] EXCEPT
                            !.run = "exit_nonzero",
                            !.out = Some(out),
                            !.ended = "runtime_error",
                            !.text = Some(RuntimeErrorText(retcode)),
                            !.list = runtime_error_list(out.stdout, out.stderr)])
             ELSE /\ UNCHANGED << last_error_text, last_error_list >>
                  /\ pc' = "validate"
                  /\ Note([trail[Last] EXCEPT !.run = "exit_zero", !.out = Some(out)])
    /\ child' = "exited"
    /\ fs' = tmpdir_cleanup(fs, tmpdir)
    /\ tmpdir' = NoDir
    /\ UNCHANGED << peer, normalizer, max_attempts, attempt, code, last_script, outcome,
                    dirs_made, gen_calls >>

\* the child runs longer than timeout_sec: "except subprocess.TimeoutExpired"
ChildTimesOut ==
    /\ pc = "exec_run"
    /\ \E effect \in FileEffects :
          output_file' = ApplyEffect(output_file, effect, attempt)
    /\ child' = child_after_timeout
    /\ fs' = tmpdir_cleanup(fs, tmpdir)
    /\ tmpdir' = NoDir
    /\ last_error_text' = Some(TimeoutText)
    /\ last_error_list' = timeout_error_list(last_error_list)
    /\ pc' = "loop"
    /\ Note([trail[Last] EXCEPT !.run = "timeout",
                                !.killed = (child' = "killed"),
                                !.ended = "timeout",
                                !.text = Some(TimeoutText)])
    /\ UNCHANGED << peer, normalizer, max_attempts, attempt, code, last_script, last_stdout,
                    outcome, dirs_made, gen_calls >>

\* ok_output, validation_errors = validate_output_csv(...) to "return True, {...}"
Validate ==
    /\ pc = "validate"
    /\ LET r == validate_output(output_file)
       IN  IF r.ok
           THEN /\ outcome' = return_success(attempt, last_stdout, last_script)
                /\ pc' = "success"
                /\ UNCHANGED << last_error_text, last_error_list >>
                /\ Note([trail[Last] EXCEPT !.validation = Some(r.errors),
                                            !.ended = "pass"])
           ELSE /\ outcome' = outcome
                /\ pc' = "loop"
                /\ last_error_text' = Some(validation_text)
                /\ last_error_list' = r.errors
                /\ Note([trail[Last] EXCEPT !.validation = Some(r.errors),
                                            !.ended = "validation",
                                            !.text = Some(validation_text),
                                            !.list = r.errors])
    /\ UNCHANGED << peer, tmpdir, normalizer, max_attempts, attempt, code, last_script, last_stdout,
                    fs, output_file, child, dirs_made, gen_calls >>

\* the loop is over: "return False, {...}"
ReturnFailure ==
    /\ pc = "loop"
    /\ ~range_has_next(attempt, max_attempts)
    /\ outcome' = Failure(max_attempts, last_error_text, last_error_list,
                          last_script, last_stdout)
    /\ pc' = "fail"
    /\ UNCHANGED << peer, tmpdir, normalizer, max_attempts, attempt, code, last_script, last_error_text,
                    last_error_list, last_stdout, fs, output_file, child,
                    dirs_made, gen_calls, trail >>

Next ==
    \/ Summarize
    \/ Generate
    \/ GenerateRaises
    \/ StaticCheck
    \/ ExecMkdtemp
    \/ ExecStart
    \/ ChildExits
    \/ ChildTimesOut
    \/ Validate
    \/ ReturnFailure

Spec == Init /\ [][Next]_vars

----------------------------------------------------------------------------
(* Reading the history *)

Terminal == {"success", "fail", "raised"}

Attempts == 1..Len(trail)

\* the attempt's program passed the Contract Checker, exited with code 0
\* and passed the Output Validator
PassedAllGates(k) ==
    /\ trail[k].contract = Some(<<>>)
    /\ trail[k].run = "exit_zero"
    /\ trail[k].validation = Some(<<>>)

\* raw_summary has been computed: the loop has been entered
Summarized == pc # "summarize" /\ ~(pc = "raised" /\ trail = <<>>)

\* the attempt ended at a gate that failed
GateFailures == {"contract", "timeout", "unexpected", "runtime_error", "validation"}

----------------------------------------------------------------------------
(* Properties *)

\* C1: one call makes at most max_attempts generation calls, exactly one per
\* attempt, and a call that returns without any attempt having passed all
\* three gates returns the Failure outcome (success flag False).
C1_AttemptBound ==
    /\ gen_calls <= (IF max_attempts > 0 THEN max_attempts ELSE 0)
    /\ gen_calls = Len(trail)
    /\ gen_calls = attempt
    /\ (pc \in {"success", "fail"} /\ ~\E k \in Attempts : PassedAllGates(k))
          => (pc = "fail" /\ outcome.success = FALSE)
    /\ (/\ Summarized
        /\ Len(trail) >= max_attempts
        /\ \A k \in Attempts : trail[k].ended \in GateFailures)
          => pc \in {"loop", "fail"}

C1_Witness ==
    /\ pc = "fail"
    /\ max_attempts = 3
    /\ gen_calls = 3
    /\ outcome.success = FALSE

\* C2: the attempt that passes all three gates ends the call in SUCCESS with
\* attempts_used equal to its number and no later generation call; SUCCESS
\* is reached only on the first attempt that passes all three gates.
C2_SuccessOnExactAttempt ==
    /\ \A k \in Attempts :
          PassedAllGates(k) =>
             /\ pc = "success"
             /\ outcome.success = TRUE
             /\ outcome.attempts = k
             /\ gen_calls = k
             /\ k = Len(trail)
    /\ pc = "success" =>
          /\ Len(trail) >= 1
          /\ PassedAllGates(Last)
          /\ \A j \in 1..(Last - 1) : ~PassedAllGates(j)

C2_Witness ==
    /\ pc = "success"
    /\ Len(trail) = 2
    /\ trail[1].ended = "contract"
    /\ Len(trail[1].list) = 1
    /\ outcome.attempts = 2

\* C3: run_clean_script is called only on the text for which
\* script_contract_ok returned no violation in the same attempt; an attempt
\* with a contract violation executes and validates nothing and goes back to
\* the top of the loop.
C3_NoRejectedProgramRuns ==
    /\ \A k \in Attempts :
          /\ trail[k].executed # None =>
                /\ trail[k].contract = Some(<<>>)
                /\ trail[k].executed = trail[k].checked
                /\ script_contract_ok(trail[k].executed[1]).ok
          /\ (trail[k].contract # None /\ trail[k].contract # Some(<<>>)) =>
                /\ trail[k].executed = None
                /\ trail[k].run = "none"
                /\ trail[k].tmp = {}
                /\ trail[k].validation = None
                /\ trail[k].ended = "contract"
                /\ (k = Last => pc \in {"loop", "fail"})
    /\ pc \in {"execute", "exec_write", "exec_run", "validate"} =>
          trail[Last].contract = Some(<<>>)

C3_Witness ==
    /\ Len(trail) = 2
    /\ trail[1].contract # Some(<<>>)
    /\ trail[1].ended = "contract"
    /\ trail[2].executed # None
    /\ pc = "exec_run"

\* C4: a generation call that times out or raises a service error on
\* attempt k counts as a used attempt; with k < max_attempts the loop goes on
\* to attempt k + 1, with k = max_attempts the call returns Failure.
C4_GenerationFailureIsAttemptFailure ==
    \A k \in Attempts :
       trail[k].ended = "generation_error" =>
          /\ pc # "raised"
          /\ k < max_attempts => (pc = "loop" \/ Len(trail) > k)
          /\ k = max_attempts => pc \in {"loop", "fail"}

\* C5: once the input has been summarized the call ends by returning Success
\* or Failure; no failure of an attempt is raised to the caller.
C5_NoAttemptFailureRaised ==
    /\ Summarized => pc # "raised"
    /\ pc \in {"success", "fail"} => outcome.success \in BOOLEAN

\* what the failed attempt j feeds back: its error list, or else its error text
Feedback(j) ==
    IF trail[j].list # <<>> THEN trail[j].list ELSE << trail[j].text[1] >>

\* every diagnostic string attempt j produced at its failing gate
Produced(j) == Range(trail[j].list) \cup Range(trail[j].text)

\* C6: the diagnostics in the prompt of attempt k >= 2 are exactly those of
\* the gate that failed in attempt k - 1 and hold no diagnostic produced in
\* an attempt before k - 1.
C6_DiagnosticsNeverAccumulate ==
    \A k \in Attempts :
       k >= 2 =>
          /\ trail[k - 1].ended \in GateFailures
          /\ trail[k].prompt.ERRORS_TO_FIX = Some(Feedback(k - 1))
          /\ \A j \in 1..(k - 2) :
                \A d \in Produced(j) :
                   d \in Range(trail[k].prompt.ERRORS_TO_FIX[1]) => d \in Produced(k - 1)

C6_Witness ==
    /\ Len(trail) = 3
    /\ trail[1].ended = "contract"
    /\ trail[2].ended = "timeout"
    /\ trail[3].prompt.ERRORS_TO_FIX = Some(<< TimeoutText >>)

\* C7: the prompt of attempt k has a previous-program section iff k >= 2, and
\* the section is the complete cleaned text of attempt k - 1 that was handed
\* to the Contract Checker; the first prompt has no program and no diagnostics.
C7_NoPartialDiffs ==
    \A k \in Attempts :
       /\ (trail[k].prompt.PREVIOUS_SCRIPT # None) <=> (k >= 2)
       /\ k >= 2 =>
             /\ trail[k - 1].checked # None
             /\ trail[k].prompt.PREVIOUS_SCRIPT = trail[k - 1].checked
       /\ k = 1 => trail[k].prompt.ERRORS_TO_FIX = None

C7_Witness ==
    /\ Len(trail) = 3
    /\ trail[1].checked # trail[2].checked
    /\ trail[3].prompt.PREVIOUS_SCRIPT = trail[2].checked
    /\ trail[3].prompt.PREVIOUS_SCRIPT # Some(R_GOOD)
    /\ trail[2].checked = Some(clean_ai_response(R_GOOD))

\* run_clean_script has been entered and has neither returned nor raised
InExecutor == pc \in {"exec_write", "exec_run"}

\* C8: once run_clean_script has returned or raised, the temporary directory
\* and script of that attempt are gone; nothing temporary is left when the
\* call is over, and an attempt the Contract Checker rejected created none.
C8_CleanupInvariant ==
    /\ ~InExecutor => fs = {}
    /\ \A k \in Attempts :
          /\ (k < Last \/ ~InExecutor) => trail[k].tmp \cap fs = {}
          /\ trail[k].ended = "contract" => trail[k].tmp = {}
    /\ pc \in Terminal => fs = {}

C8_Witness ==
    /\ pc = "fail"
    /\ Len(trail) = 3
    /\ trail[1].run = "timeout"
    /\ trail[1].tmp = {TmpDir(1), ScriptPath(1)}
    /\ trail[2].run = "unexpected"
    /\ trail[2].tmp = {TmpDir(2), ScriptPath(2)}
    /\ trail[3].run = "exit_nonzero"
    /\ fs = {}

\* C9: when the child of attempt k exceeds the timeout it is killed before
\* run_clean_script is left, the validator is not called for attempt k, the
\* timeout diagnostic is the feedback of the prompt of attempt k + 1, and the
\* loop retries if k < max_attempts and fails otherwise.
C9_ExecutionTimeout ==
    \A k \in Attempts :
       trail[k].run = "timeout" =>
          /\ trail[k].killed
          /\ trail[k].validation = None
          /\ k < Last => trail[k + 1].prompt.ERRORS_TO_FIX = Some(<< TimeoutText >>)
          /\ k = Last =>
                /\ child = "killed"
                /\ pc \in {"loop", "fail"}
                /\ pc = "fail" => k >= max_attempts
                /\ (pc = "loop" /\ k < max_attempts) => ENABLED Generate
                /\ (pc = "loop" /\ k >= max_attempts) => ~ENABLED Generate

C9_Witness ==
    /\ Len(trail) = 2
    /\ trail[1].run = "timeout"
    /\ trail[1].killed
    /\ trail[2].prompt.ERRORS_TO_FIX = Some(<< TimeoutText >>)

\* C10: when all max_attempts attempts fail, Failure carries attempts_used =
\* max_attempts, the program of the last attempt and the non-empty diagnostics
\* of the gate that failed in the last attempt, whatever the failure kind.
C10_FailureOutcomeContents ==
    (pc = "fail" /\ max_attempts >= 1) =>
       /\ outcome.success = FALSE
       /\ outcome.attempts = max_attempts
       /\ Len(trail) = max_attempts
       /\ trail[Last].ended \in GateFailures
       /\ trail[Last].checked # None
       /\ outcome.last_script = trail[Last].checked
       /\ outcome.last_error_text = trail[Last].text
       /\ outcome.last_error_list = trail[Last].list
       /\ outcome.last_error_text # None
       /\ trail[Last].ended \in {"contract", "runtime_error", "validation"}
             => outcome.last_error_list # <<>>

C10_Witness ==
    /\ pc = "fail"
    /\ max_attempts = 3
    /\ trail[1].ended = "validation"
    /\ trail[2].ended = "runtime_error"
    /\ trail[3].ended = "timeout"
    /\ outcome.last_error_text = Some(TimeoutText)

----------------------------------------------------------------------------
(* The Contract Checker on every short text *)

\* longest generated text, in tokens
MaxCodeLen == 3

CodeTokens ==
    { T_DEF, T_GUARD_DQ, T_GUARD_SQ, T_NAME, T_CALL, T_CALL_ONE_ARG, T_PAD,
      T_SUBPROCESS, T_REQUESTS, T_HTTPX, T_AIOHTTP, T_EVAL, T_EXEC,
      T_OSSYSTEM, T_RMTREE, T_RMDTREE }

RawTexts == UNION {[1..n -> CodeTokens] : n \in 0..MaxCodeLen}

\* a request with a budget of one attempt whose generation call has just
\* returned raw_resp
AfterGenerate(raw_resp) ==
    /\ normalizer = "dynamic_llm_normalizer"
    /\ pc = "static_check"
    /\ max_attempts = 1
    /\ attempt = 1
    /\ code = clean_ai_response(raw_resp)
    /\ last_script = Some(script_to_keep(raw_resp, code))
    /\ last_error_text = None
    /\ last_error_list = <<>>
    /\ last_stdout = EmptyText
    /\ outcome = NoOutcome
    /\ fs = {}
    /\ output_file = NoFile
    /\ child = "none"
    /\ dirs_made = 0
    /\ tmpdir = NoDir
    /\ peer = NoPeer
    /\ gen_calls = 1
    /\ trail = << NewAttempt(build_user_prompt(raw_summary, None, None, <<>>)) >>

InitContract == \E raw_resp \in RawTexts : AfterGenerate(raw_resp)

NextContract ==
    \/ StaticCheck
    \/ ExecMkdtemp
    \/ ReturnFailure

SpecContract == InitContract /\ [][NextContract]_vars

\* the four kinds of rule of the Contract Checker, read off the text
TooLarge(c) == \E i \in 1..Len(c) : c[i] = T_PAD

NoEntryRoutine(c) == \A i \in 1..Len(c) : c[i] # T_DEF

NoMainGuard(c) == \A i \in 1..Len(c) : c[i] \notin {T_GUARD_DQ, T_GUARD_SQ}

DenylistedTokens ==
    { T_SUBPROCESS, T_REQUESTS, T_HTTPX, T_AIOHTTP, T_EVAL, T_EXEC,
      T_OSSYSTEM, T_RMTREE, T_RMDTREE }

Denylisted(c) == Range(c) \cap DenylistedTokens

\* the violations of one kind in a result, by their message
OfKind(errors, m) == {i \in 1..Len(errors) : errors[i].msg = m}

MsgTooLarge == "Script is too large (> {max_bytes} bytes)."
MsgNoEntry == "Missing required function definition: def clean(input_path, output_path)."
MsgNoGuard == "Missing required main guard: if __name__ == '__main__': ... clean(sys.argv[1], sys.argv[2])."
MsgForbidden == "Forbidden pattern detected: {snippet!r}."

\* script_contract_ok has been called in the attempt
Checked(k) == trail[k].contract # None

\* C11: script_contract_ok evaluates the size rule, the entry-routine rule,
\* the main-guard rule and each denylist entry independently: its result has
\* one violation for each rule the text breaks and no other, and the text is
\* accepted iff the violation list is empty.
C11_AllViolationsAtOnce ==
    \A k \in Attempts :
       Checked(k) =>
          LET c == trail[k].checked[1]
              errors == trail[k].contract[1]
              one(b) == IF b THEN 1 ELSE 0
          IN  /\ Cardinality(OfKind(errors, MsgTooLarge)) = one(TooLarge(c))
              /\ Cardinality(OfKind(errors, MsgNoEntry)) = one(NoEntryRoutine(c))
              /\ Cardinality(OfKind(errors, MsgNoGuard)) = one(NoMainGuard(c))
              /\ Cardinality(OfKind(errors, MsgForbidden)) = Cardinality(Denylisted(c))
              /\ Len(errors) = one(TooLarge(c)) + one(NoEntryRoutine(c))
                                + one(NoMainGuard(c)) + Cardinality(Denylisted(c))
              /\ (errors = <<>>) <=> (trail[k].ended # "contract")
              /\ (errors = <<>>) <=> script_contract_ok(c).ok

C11_Witness ==
    /\ Len(trail) = 1
    /\ Checked(1)
    /\ trail[1].checked = Some(<< T_PAD, T_EVAL, T_RMTREE >>)
    /\ Len(trail[1].contract[1]) = 5

\* C12: every text the Contract Checker accepts holds the entry-routine
\* definition and a main guard followed by the call of the entry routine with
\* two positional arguments; a guard without that call is rejected.
C12_RequiredShape ==
    \A k \in Attempts :
       (Checked(k) /\ trail[k].contract = Some(<<>>)) =>
          LET c == trail[k].checked[1]
          IN  /\ ~NoEntryRoutine(c)
              /\ \E i \in 1..Len(c) :
                    /\ c[i] \in {T_GUARD_DQ, T_GUARD_SQ}
                    /\ \E j \in (i + 1)..Len(c) : c[j] = T_CALL

\* C13: script_contract_ok reports a violation for every entry of the
\* forbidden list that occurs in the text, so no text with a forbidden token
\* is handed to run_clean_script.
C13_Denylist ==
    \A k \in Attempts :
       /\ Checked(k) =>
             LET c == trail[k].checked[1]
                 errors == trail[k].contract[1]
             IN  /\ \A t \in Denylisted(c) :
                       \E i \in OfKind(errors, MsgForbidden) :
                          /\ Len(errors[i].args) = 1
                          /\ errors[i].args[1] \in Range(FORBIDDEN_SNIPPETS)
                          /\ Occurs(errors[i].args[1], t)
                 /\ Denylisted(c) # {} => trail[k].ended = "contract"
       /\ trail[k].executed # None => Denylisted(trail[k].executed[1]) = {}

C13_Witness ==
    /\ Len(trail) = 1
    /\ Checked(1)
    /\ trail[1].checked = Some(<< T_DEF, T_OSSYSTEM, T_REQUESTS >>)
    /\ Cardinality(OfKind(trail[1].contract[1], MsgForbidden)) = 2
    /\ pc = "fail"

\* C14: an attempt that ends at the Contract Checker executes nothing and
\* leaves the filesystem alone: from the generation call to the rejection no
\* temporary path is created and the output path is not touched; the
\* rejection changes only the diagnostics, the generation only the program.
C14_StaticCheckSideEffectFree ==
    [][ /\ (pc = "static_check" /\ ~script_contract_ok(code).ok) =>
              /\ pc' = "loop"
              /\ UNCHANGED << fs, output_file, child, dirs_made, last_stdout,
                              outcome, attempt, gen_calls, last_script, code >>
              /\ trail'[Last].executed = None
              /\ trail'[Last].tmp = {}
              /\ trail'[Last].validation = None
        /\ (pc = "loop" /\ pc' = "static_check") =>
              UNCHANGED << fs, output_file, child, dirs_made, last_stdout,
                           outcome, last_error_text, last_error_list >>
      ]_vars

C14_Witness ==
    /\ Len(trail) = 2
    /\ trail[1].ended = "timeout"
    /\ trail[2].ended = "contract"
    /\ pc = "loop"
    /\ output_file.exists
    /\ output_file.by = 1
    /\ fs = {}

----------------------------------------------------------------------------
(* The Output Validators on every small output file *)

\* most data rows of an output file
MaxRows == 1

Columns == Range(ColumnOrder)

\* a defect count is at most the number of rows and is 0 for an absent column
CellsOf(cols, rows) ==
    [ null_ids : IF "customer_id" \in cols THEN 0..rows ELSE {0},
      bad_dates : IF "event_date" \in cols THEN 0..rows ELSE {0},
      neg_amounts : IF "amount" \in cols THEN 0..rows ELSE {0},
      bad_labels : IF "churn_label" \in cols THEN 0..rows ELSE {0} ]

OutputFiles ==
    {NoFile, GarbageFile(1)}
    \cup UNION { UNION { {CsvFileWith(cols, rows, 1, cells) : cells \in CellsOf(cols, rows)}
                         : rows \in 0..MaxRows }
                 : cols \in SUBSET Columns }

\* attempt budgets of the requests whose validation is looked at
ValidateBudgets == {1, 2}

\* a request whose first program passed the Contract Checker and has just
\* exited with code 0, leaving file at the output path
AfterExitZero(nm, n, file) ==
    LET c == clean_ai_response(R_GOOD)
        out == [stdout |-> EmptyText, stderr |-> EmptyText]
    IN  /\ normalizer = nm
        /\ pc = "validate"
        /\ max_attempts = n
        /\ attempt = 1
        /\ code = c
        /\ last_script = Some(script_to_keep(R_GOOD, c))
        /\ last_error_text = None
        /\ last_error_list = <<>>
        /\ last_stdout = out.stdout
        /\ outcome = NoOutcome
        /\ fs = {}
        /\ output_file = file
        /\ child = "exited"
        /\ dirs_made = 1
        /\ tmpdir = NoDir
        /\ peer = NoPeer
        /\ gen_calls = 1
        /\ trail = << [NewAttempt(build_user_prompt(raw_summary, None, None, <<>>))
                         EXCEPT !.checked = Some(c),
                                !.contract = Some(<<>>),
                                !.executed = Some(c),
                                !.tmp = {TmpDir(1), ScriptPath(1)},
                                !.run = "exit_zero",
                                !.out = Some(out)] >>

InitValidate ==
    \E nm \in Normalizers, n \in ValidateBudgets, file \in OutputFiles :
       AfterExitZero(nm, n, file)

NextValidate ==
    \/ Validate
    \/ ReturnFailure

SpecValidate == InitValidate /\ [][NextValidate]_vars

\* validate_output_csv has been called in the attempt
Validated(k) == trail[k].validation # None

\* the file at the output path exists and parses
Readable(f) == f.exists /\ f.parseable

\* the target columns of the running orchestrator
RequiredColumns ==
    IF normalizer = "dynamic_llm_normalizer"
    THEN {"customer_id", "event_date"}
    ELSE {"customer_id", "event_date", "amount", "event_type", "churn_label"}

MsgMissing == "Missing required columns: {sorted(missing)}"
MsgEmpty == "Output CSV is empty (0 rows)."
MsgNullIds == "Found {null_count} null values in customer_id."
MsgBadDates == "event_date column contains {invalid_count} invalid dates."
MsgNegAmounts == "Found {neg_count} negative values in amount column."
MsgBadLabels == "Found {len(invalid_labels)} invalid churn_label values (must be 0 or 1)."

\* the messages of the checks the running orchestrator's validator makes
\* that fail on the readable file f
FailingChecks(f) ==
    {m \in {MsgMissing} : RequiredColumns \ f.cols # {}}
    \cup (IF normalizer = "dynamic_llm_normalizer"
          THEN {m \in {MsgEmpty} : f.rows = 0}
          ELSE {m \in {MsgNullIds} : f.cells.null_ids > 0}
               \cup {m \in {MsgBadDates} : f.cells.bad_dates > 0}
               \cup {m \in {MsgNegAmounts} : f.cells.neg_amounts > 0}
               \cup {m \in {MsgBadLabels} : f.cells.bad_labels > 0})

\* C15: for an output file that exists and parses, the validator's result
\* has one error for every check of it that fails, in any combination, and
\* the file is accepted iff no check fails.
C15_ValidatorIndependence ==
    (Len(trail) = 1 /\ Validated(1) /\ Readable(output_file)) =>
       LET errors == trail[1].validation[1]
       IN  /\ {errors[i].msg : i \in 1..Len(errors)} = FailingChecks(output_file)
           /\ Len(errors) = Cardinality(FailingChecks(output_file))
           /\ (FailingChecks(output_file) = {}) <=> (pc = "success")
           /\ (errors = <<>>) <=> (trail[1].ended = "pass")

C15_Witness ==
    /\ normalizer = "dynamic_llm_normalizer"
    /\ Len(trail) = 1
    /\ Validated(1)
    /\ Readable(output_file)
    /\ output_file.rows = 0
    /\ "customer_id" \notin output_file.cols
    /\ Len(trail[1].validation[1]) = 2

\* C16: the validator lists exactly the target columns absent from the
\* output file, extra columns alone cause no error, SUCCESS needs every target
\* column, and a missing column before the last attempt makes the loop retry.
C16_MissingColumns ==
    (Len(trail) = 1 /\ Validated(1) /\ Readable(output_file)) =>
       LET errors == trail[1].validation[1]
           missing == RequiredColumns \ output_file.cols
           listed == OfKind(errors, MsgMissing)
       IN  /\ (missing # {}) <=> (listed # {})
           /\ \A i \in listed :
                 /\ Range(errors[i].args) = missing
                 /\ Len(errors[i].args) = Cardinality(missing)
           /\ (/\ missing = {}
               /\ output_file.cols # RequiredColumns
               /\ output_file.rows > 0
               /\ output_file.cells = NoDefects) => pc = "success"
           /\ pc = "success" => RequiredColumns \subseteq output_file.cols
           /\ missing # {} =>
                 /\ trail[1].ended = "validation"
                 /\ pc \in {"loop", "fail"}
                 /\ (pc = "loop" /\ attempt < max_attempts) => ENABLED Generate
                 /\ pc = "fail" => attempt >= max_attempts

C16_Witness ==
    /\ normalizer = "dynamic_llm_normalizer"
    /\ Len(trail) = 1
    /\ Validated(1)
    /\ output_file.cols = {"event_date", "amount"}
    /\ output_file.rows = 1
    /\ trail[1].validation[1] = << Diag(MsgMissing, << "customer_id" >>, 0) >>
    /\ pc = "loop"
    /\ max_attempts = 2

\* C17: the validator reports an error whenever the output file has zero
\* data rows, so neither orchestrator ends in SUCCESS on an output with zero
\* rows.
C17_NonEmptyOutput ==
    /\ (Len(trail) = 1 /\ Validated(1) /\ Readable(output_file) /\ output_file.rows = 0) =>
          /\ trail[1].validation[1] # <<>>
          /\ trail[1].ended = "validation"
    /\ pc = "success" => output_file.rows > 0

\* C18: the validator reports an error whenever a required identity or date
\* column of the target schema holds a missing or unparseable value, so no
\* request ends in SUCCESS with a null in such a column.
C18_RequiredValues ==
    LET bad == \/ "customer_id" \in output_file.cols /\ output_file.cells.null_ids > 0
               \/ "event_date" \in output_file.cols /\ output_file.cells.bad_dates > 0
    IN  /\ (Len(trail) = 1 /\ Validated(1) /\ Readable(output_file) /\ bad) =>
              /\ trail[1].validation[1] # <<>>
              /\ trail[1].ended = "validation"
        /\ pc = "success" => ~bad

----------------------------------------------------------------------------
(* More properties of the loop *)

\* C19: when the program of attempt k exits with a non-zero code the
\* validator is not called for attempt k, and the attempt's diagnostics are
\* the stderr cut to at most 1000 characters and the stdout cut to at most
\* 500 characters; they are the feedback of the prompt of attempt k + 1.
C19_NonZeroExit ==
    \A k \in Attempts :
       trail[k].run = "exit_nonzero" =>
          /\ trail[k].validation = None
          /\ trail[k].ended = "runtime_error"
          /\ trail[k].out # None
          /\ LET stdout == trail[k].out[1].stdout
                 stderr == trail[k].out[1].stderr
                 cut(len, limit) == IF len > limit THEN limit ELSE len
             IN  /\ Len(trail[k].list) = 2
                 /\ trail[k].list[1] = Diag("stderr (truncated): {truncated_stderr}",
                                            << stderr.tag >>, cut(stderr.len, 1000))
                 /\ trail[k].list[2] = Diag("stdout (truncated): {truncated_stdout}",
                                            << stdout.tag >>, cut(stdout.len, 500))
                 /\ trail[k].list[1].n <= 1000
                 /\ trail[k].list[2].n <= 500
          /\ k < Last => trail[k + 1].prompt.ERRORS_TO_FIX = Some(trail[k].list)

C19_Witness ==
    /\ Len(trail) = 2
    /\ trail[1].run = "exit_nonzero"
    /\ trail[1].out[1].stderr.len = 1001
    /\ trail[1].out[1].stdout.len = 501
    /\ trail[1].list[1].n = 1000
    /\ trail[1].list[2].n = 500
    /\ trail[2].prompt.ERRORS_TO_FIX = Some(trail[1].list)

\* the moves of pc the order GENERATE, STATIC_CHECK, EXECUTE, VALIDATE allows
AllowedMoves ==
    { << "summarize", "loop" >>, << "summarize", "raised" >>,
      << "loop", "static_check" >>, << "loop", "raised" >>, << "loop", "fail" >>,
      << "static_check", "execute" >>, << "static_check", "loop" >>,
      << "execute", "exec_write" >>, << "execute", "loop" >>,
      << "exec_write", "exec_run" >>, << "exec_write", "loop" >>,
      << "exec_run", "validate" >>, << "exec_run", "loop" >>,
      << "validate", "success" >>, << "validate", "loop" >> }

\* C20: the gates of an attempt are visited in the order GENERATE,
\* STATIC_CHECK, EXECUTE, VALIDATE, each at most once per attempt; the
\* generation call of the next attempt is made only when the attempt before
\* it has ended at a failed gate with its executor call over; no two attempts
\* are in progress at the same time.
C20_StrictSequencing ==
    [][ /\ pc' # pc => << pc, pc' >> \in AllowedMoves
        /\ Len(trail') # Len(trail) =>
              /\ Len(trail') = Len(trail) + 1
              /\ pc = "loop"
              /\ gen_calls' = gen_calls + 1
              /\ child # "running"
              /\ fs = {}
              /\ \A k \in Attempts : trail[k].ended \in GateFailures
              /\ \A k \in Attempts : trail'[k] = trail[k]
        /\ Len(trail') = Len(trail) =>
              \A k \in Attempts :
                 /\ k < Last => trail'[k] = trail[k]
                 /\ trail'[k].contract # trail[k].contract =>
                       (pc = "static_check" /\ trail[k].contract = None)
                 /\ trail'[k].executed # trail[k].executed =>
                       (pc = "execute" /\ trail[k].executed = None
                          /\ trail[k].contract = Some(<<>>))
                 /\ trail'[k].validation # trail[k].validation =>
                       (pc = "validate" /\ trail[k].validation = None
                          /\ trail[k].run = "exit_zero")
                 /\ trail[k].ended # "pending" => trail'[k] = trail[k]
      ]_vars

C20_Witness ==
    /\ Len(trail) = 2
    /\ trail[1].ended = "validation"
    /\ trail[2].run = "exit_zero"
    /\ pc = "validate"

----------------------------------------------------------------------------
(* Termination *)

\* every call that is made returns or raises: call_gemini has an HTTP timeout,
\* the child process is cut off by timeout_sec, every other step is
\* straight-line code
SpecFair == Init /\ [][Next]_vars /\ WF_vars(Next)

\* the input file could not be read: the request-level failure of summarize_csv
InputReadFailure == pc = "raised" /\ trail = <<>>

\* C21: when every generation call and every child process returns or is cut
\* off by its timeout, a request whose input can be read eventually reaches
\* SUCCESS or FAIL, for every max_attempts and every sequence of gate outcomes.
C21_Termination == <>(pc \in {"success", "fail"} \/ InputReadFailure)

----------------------------------------------------------------------------
(* The outcome of a request *)

\* C22: a request that ends in SUCCESS returns an outcome whose attempts value
\* is the index of the successful attempt and whose final program text is the
\* program generated, checked, executed and validated in that attempt, under
\* both orchestrators.
C22_SuccessOutcomeContents ==
    pc = "success" =>
       /\ outcome.success
       /\ outcome.attempts = Last
       /\ PassedAllGates(Last)
       /\ trail[Last].checked = trail[Last].executed
       /\ "generated_script" \in DOMAIN outcome
       /\ outcome.generated_script = trail[Last].executed

\* C23: when summarize_csv cannot parse the input file the request fails at
\* once: no generation call has been made, no program has been executed, no
\* attempt has been started, and nothing more happens, whatever max_attempts is.
C23_InputReadFailureFatal ==
    outcome = Raised(InputReadError) =>
       /\ pc = "raised"
       /\ gen_calls = 0
       /\ dirs_made = 0
       /\ child = "none"
       /\ attempt = 0
       /\ trail = <<>>
       /\ ~ENABLED Next

C23_Witness ==
    /\ outcome = Raised(InputReadError)
    /\ pc = "raised"
    /\ max_attempts = MaxAttempts
    /\ gen_calls = 0

\* C25: on every attempt, first and repair alike, the user text sent to the
\* generation service holds the summary of the input and the target schema.
C25_PromptContents ==
    \A k \in Attempts :
       LET user_text == trail[k].prompt
       IN  /\ user_text.RAW_CSV_SUMMARY = raw_summary
           /\ "EXPECTED_SCHEMA" \in DOMAIN user_text
           /\ user_text.EXPECTED_SCHEMA = build_system_prompt(expected_schema).EXPECTED_SCHEMA

\* C26: when a request ends in SUCCESS at attempt k, the file the validator
\* accepted was written by the program run in attempt k, not left at the
\* output path by an earlier attempt.
C26_OutputFreshness ==
    pc = "success" =>
       /\ output_file.exists
       /\ output_file.by = Last

\* the stdout the attempt's program produced; empty when it was never run or
\* did not return
StdoutOf(k) ==
    IF trail[k].out # None THEN trail[k].out[1].stdout ELSE EmptyText

\* C27: the last_stdout, last_script, last_error_text and last_error_list of
\* a Failure outcome all belong to the final attempt; last_stdout is never the
\* stdout of an earlier attempt.
C27_AuditConsistency ==
    (pc = "fail" /\ Last > 0) =>
       /\ outcome.last_script = trail[Last].checked
       /\ outcome.last_error_text = trail[Last].text
       /\ outcome.last_error_list = trail[Last].list
       /\ outcome.last_stdout = StdoutOf(Last)

\* C28: for every max_attempts, zero and negative values included, the
\* attempts value of the returned outcome is not negative and is the number of
\* generation calls made; with max_attempts <= 0 no generation call is made
\* and the Failure outcome has no last program and empty diagnostics.
C28_ReportedAttempts ==
    pc \in {"success", "fail"} =>
       /\ outcome.attempts >= 0
       /\ outcome.attempts = gen_calls
       /\ max_attempts <= 0 =>
             /\ gen_calls = 0
             /\ ~outcome.success
             /\ outcome.last_script = None
             /\ outcome.last_error_text = None
             /\ outcome.last_error_list = <<>>

\* C29: when run_clean_script raises anything but a timeout in attempt k,
\* the attempt has failed with the one "unexpected error" diagnostic and an
\* empty error list, the validator is not called, and the loop goes on to
\* attempt k + 1 or returns the Failure outcome; nothing is raised to the caller.
C29_UnexpectedRecoveredLocally ==
    \A k \in Attempts :
       trail[k].run = "unexpected" =>
          /\ trail[k].ended = "unexpected"
          /\ trail[k].validation = None
          /\ trail[k].out = None
          /\ \E exc \in {"OSError", "FileNotFoundError"} :
                trail[k].text = Some(UnexpectedText(exc))
          /\ trail[k].list = <<>>
          /\ k < Last => trail[k + 1].prompt.ERRORS_TO_FIX = Some(<< trail[k].text[1] >>)
          /\ k = Last =>
                /\ pc \in {"loop", "fail"}
                /\ last_error_text = trail[k].text
                /\ last_error_list = <<>>
                /\ pc = "loop" => outcome = NoOutcome
                /\ pc = "fail" =>
                      outcome = Failure(max_attempts, trail[k].text, <<>>,
                                        trail[k].checked, last_stdout)

C29_Witness ==
    /\ Len(trail) = 2
    /\ trail[1].ended = "contract"
    /\ trail[2].run = "unexpected"
    /\ trail[2].text = Some(UnexpectedText("FileNotFoundError"))
    /\ pc = "fail"

----------------------------------------------------------------------------
(* The main-guard rule *)

\* C30: script_contract_ok reports the missing-main-guard violation iff the
\* text holds neither the double-quoted nor the single-quoted guard; a text
\* with either form never gets it, a text with __name__ but neither form does.
C30_MainGuardRule ==
    \A k \in Attempts :
       Checked(k) =>
          LET c == trail[k].checked[1]
              reported == OfKind(trail[k].contract[1], MsgNoGuard) # {}
              dq == T_GUARD_DQ \in Range(c)
              sq == T_GUARD_SQ \in Range(c)
          IN  /\ reported <=> (~dq /\ ~sq)
              /\ (dq \/ sq) => ~reported
              /\ (T_NAME \in Range(c) /\ ~dq /\ ~sq) =>
                    (reported /\ trail[k].ended = "contract")

C30_Witness ==
    /\ Len(trail) = 1
    /\ Checked(1)
    /\ trail[1].checked = Some(<< T_DEF, T_NAME, T_CALL >>)
    /\ trail[1].contract = Some(<< Diag(MsgNoGuard, <<>>, 0) >>)
    /\ pc = "fail"

----------------------------------------------------------------------------
(* Two concurrent requests *)

\* Two calls of normalize_with_dynamic_llm with different input and output
\* paths run in different threads.  The variables of the module are those of
\* the request that takes the next step; peer holds those of the other one.
\* What the two share is the temporary-directory namespace: fs and dirs_made.

\* the locals of the stepping request
Mine ==
    [ id |-> 3 - peer.id,
      normalizer |-> normalizer, pc |-> pc, max_attempts |-> max_attempts,
      attempt |-> attempt, code |-> code, last_script |-> last_script,
      last_error_text |-> last_error_text, last_error_list |-> last_error_list,
      last_stdout |-> last_stdout, outcome |-> outcome,
      output_file |-> output_file, child |-> child, tmpdir |-> tmpdir,
      gen_calls |-> gen_calls, trail |-> trail ]

\* a request that has been called and has not taken a step
Fresh(i, n) ==
    [ id |-> i,
      normalizer |-> "dynamic_llm_normalizer", pc |-> "summarize", max_attempts |-> n,
      attempt |-> 0, code |-> <<>>, last_script |-> None,
      last_error_text |-> None, last_error_list |-> <<>>,
      last_stdout |-> EmptyText, outcome |-> NoOutcome,
      output_file |-> NoFile, child |-> "none", tmpdir |-> NoDir,
      gen_calls |-> 0, trail |-> <<>> ]

\* the scheduler lets the other request run
Switch ==
    /\ peer # NoPeer
    /\ peer.pc \notin Terminal
    /\ normalizer' = peer.normalizer
    /\ pc' = peer.pc
    /\ max_attempts' = peer.max_attempts
    /\ attempt' = peer.attempt
    /\ code' = peer.code
    /\ last_script' = peer.last_script
    /\ last_error_text' = peer.last_error_text
    /\ last_error_list' = peer.last_error_list
    /\ last_stdout' = peer.last_stdout
    /\ outcome' = peer.outcome
    /\ output_file' = peer.output_file
    /\ child' = peer.child
    /\ tmpdir' = peer.tmpdir
    /\ gen_calls' = peer.gen_calls
    /\ trail' = peer.trail
    /\ peer' = Mine
    /\ UNCHANGED << fs, dirs_made >>

\* attempt budgets of the two requests
PairBudgets == {<< 2, 1 >>, << 1, 1 >>}

InitPair ==
    \E b \in PairBudgets :
       /\ peer = Fresh(2, b[2])
       /\ normalizer = "dynamic_llm_normalizer"
       /\ pc = "summarize"
       /\ max_attempts = b[1]
       /\ attempt = 0
       /\ code = <<>>
       /\ last_script = None
       /\ last_error_text = None
       /\ last_error_list = <<>>
       /\ last_stdout = EmptyText
       /\ outcome = NoOutcome
       /\ output_file = NoFile
       /\ child = "none"
       /\ tmpdir = NoDir
       /\ gen_calls = 0
       /\ trail = <<>>
       /\ fs = {}
       /\ dirs_made = 0

NextPair == Next \/ Switch

SpecPair == InitPair /\ [][NextPair]_vars


\* the temporary paths the attempts of a history were given
PathsOf(tr) == UNION {tr[k].tmp : k \in 1..Len(tr)}

\* the attempts of a history whose program ran and returned
Returned(tr) == {k \in 1..Len(tr) : tr[k].out # None}

\* the value of last_stdout a history leads to
StdoutAfter(tr) ==
    IF Returned(tr) = {} THEN EmptyText
    ELSE LET k == CHOOSE i \in Returned(tr) : \A j \in Returned(tr) : j <= i
         IN  tr[k].out[1].stdout

\* what a request returns when it runs alone and its gates come out as in
\* the history of r
OutcomeAlone(r) ==
    LET tr == r.trail
        L == Len(tr)
    IN  CASE r.pc = "success" -> Success(L, tr[L].out[1].stdout, tr[L].executed)
          [] r.pc = "fail" ->
                Failure(r.max_attempts,
                        IF L = 0 THEN None ELSE tr[L].text,
                        IF L = 0 THEN <<>> ELSE tr[L].list,
                        IF L = 0 THEN None ELSE tr[L].checked,
                        StdoutAfter(tr))
          [] r.pc = "raised" /\ L = 0 -> Raised(InputReadError)
          [] r.pc = "raised" /\ L > 0 ->
                IF r.outcome \in {Raised(exc) : exc \in GenerationErrors}
                THEN r.outcome ELSE NoOutcome
          [] OTHER -> NoOutcome

\* the temporary directory of a request inside run_clean_script, and the
\* script its child process runs, exist
OwnPathsExist(r, files) ==
    /\ r.pc \in {"exec_write", "exec_run"} => TmpDir(r.tmpdir) \in files
    /\ r.pc = "exec_run" => ScriptPath(r.tmpdir) \in files

\* C24: of two requests running under any interleaving, each gets temporary
\* paths that differ from the other's and from those of its own other
\* attempts and that nobody else removes; a step of one request leaves the
\* other's variables (last program, diagnostics, attempt counter, last stdout)
\* and files as they are; and each returns what it returns running alone.
C24_RequestIsolation ==
    [][ /\ PathsOf(trail') \cap PathsOf(peer'.trail) = {}
        /\ \A tr \in {trail', peer'.trail} :
              \A j, k \in 1..Len(tr) : j # k => tr[j].tmp \cap tr[k].tmp = {}
        /\ peer'.id = peer.id =>
              /\ peer' = peer
              /\ {f \in fs' : f.dir = peer.tmpdir} = {f \in fs : f.dir = peer.tmpdir}
        /\ peer'.id # peer.id =>
              /\ peer' = Mine
              /\ Mine' = peer
              /\ fs' = fs
        /\ \A r \in {Mine', peer'} :
              /\ OwnPathsExist(r, fs')
              /\ r.outcome = OutcomeAlone(r)
      ]_vars

C24_Witness ==
    /\ peer.id = 1
    /\ peer.pc = "fail"
    /\ Len(peer.trail) = 2
    /\ {TmpDir(1), ScriptPath(1), TmpDir(3), ScriptPath(3)} \subseteq PathsOf(peer.trail)
    /\ pc = "success"
    /\ PathsOf(trail) = {TmpDir(2), ScriptPath(2)}
    /\ outcome = OutcomeAlone(Mine)
    /\ fs = {}

====
